---- MODULE Spec2Model ----
(***************************************************************************)
(* The Attendance Lifeline calculator (src/software.py).                   *)
(*                                                                         *)
(* The program is a Streamlit script: three number inputs, one button, and *)
(* the two solvers calculate_required_classes and                          *)
(* calculate_max_missable_classes plus the chart loop that builds          *)
(* missable_data.  All of the solvers' arithmetic is Python float          *)
(* arithmetic, i.e. IEEE-754 binary64 with round-to-nearest-even, so the   *)
(* model carries its own binary64 arithmetic (the F... operators) over big *)
(* naturals (the B... operators), since TLC's integers are 32 bit.         *)
(***************************************************************************)
EXTENDS Integers, Sequences, FiniteSets, TLC

(***************************************************************************)
(* Big naturals: little-endian sequences of limbs in radix Base, without   *)
(* leading (high) zero limbs; <<>> is zero.                                *)
(***************************************************************************)
Base == 2^15

RECURSIVE BNorm(_)
BNorm(s) ==
    IF s = <<>> THEN <<>>
    ELSE IF s[Len(s)] = 0 THEN BNorm(SubSeq(s, 1, Len(s) - 1))
    ELSE s

RECURSIVE BFromInt(_)
BFromInt(n) ==
    IF n = 0 THEN <<>> ELSE <<n % Base>> \o BFromInt(n \div Base)

RECURSIVE BToInt(_)
BToInt(s) ==
    IF s = <<>> THEN 0 ELSE s[1] + Base * BToInt(Tail(s))

BHead(s) == IF s = <<>> THEN 0 ELSE s[1]

BTail(s) == IF s = <<>> THEN <<>> ELSE Tail(s)

RECURSIVE BAddC(_, _, _)
BAddC(a, b, c) ==
    IF a = <<>> /\ b = <<>> THEN (IF c = 0 THEN <<>> ELSE <<c>>)
    ELSE LET x == BHead(a) + BHead(b) + c
         IN  <<x % Base>> \o BAddC(BTail(a), BTail(b), x \div Base)

BAdd(a, b) == BAddC(a, b, 0)

\* a - b - c for a >= b + c (limbs not yet normalised)
RECURSIVE BSubC(_, _, _)
BSubC(a, b, c) ==
    IF a = <<>> THEN <<>>
    ELSE LET x == a[1] - BHead(b) - c
         IN  IF x < 0 THEN <<x + Base>> \o BSubC(Tail(a), BTail(b), 1)
             ELSE <<x>> \o BSubC(Tail(a), BTail(b), 0)

BSub(a, b) == BNorm(BSubC(a, b, 0))

\* compare from the most significant limb: -1, 0, 1
RECURSIVE BCmpAt(_, _, _)
BCmpAt(a, b, i) ==
    IF i = 0 THEN 0
    ELSE IF a[i] < b[i] THEN -1
    ELSE IF a[i] > b[i] THEN 1
    ELSE BCmpAt(a, b, i - 1)

BCmp(a, b) ==
    IF Len(a) < Len(b) THEN -1
    ELSE IF Len(a) > Len(b) THEN 1
    ELSE BCmpAt(a, b, Len(a))

\* a * k + c for 0 <= k < Base, 0 <= c < Base
RECURSIVE BMulSmallC(_, _, _)
BMulSmallC(a, k, c) ==
    IF a = <<>> THEN (IF c = 0 THEN <<>> ELSE <<c>>)
    ELSE LET x == a[1] * k + c
         IN  <<x % Base>> \o BMulSmallC(Tail(a), k, x \div Base)

BMulSmall(a, k) == BNorm(BMulSmallC(a, k, 0))

BShiftLimbs(a, n) == IF a = <<>> THEN <<>> ELSE [i \in 1..n |-> 0] \o a

RECURSIVE BMul(_, _)
BMul(a, b) ==
    IF a = <<>> \/ b = <<>> THEN <<>>
    ELSE BAdd(BMulSmall(a, b[1]), BShiftLimbs(BMul(a, Tail(b)), 1))

\* a * 2^n
BShl(a, n) == BShiftLimbs(BMulSmall(a, 2^(n % 15)), n \div 15)

\* floor(a / k) for 1 <= k < Base, from the most significant limb down
RECURSIVE BDivSmallAt(_, _, _, _)
BDivSmallAt(a, k, i, r) ==
    IF i = 0 THEN <<>>
    ELSE LET x == r * Base + a[i]
         IN  BDivSmallAt(a, k, i - 1, x % k) \o <<x \div k>>

BDivSmall(a, k) == BNorm(BDivSmallAt(a, k, Len(a), 0))

\* floor(a / 2^n)
BShr(a, n) ==
    IF n \div 15 >= Len(a) THEN <<>>
    ELSE BDivSmall(SubSeq(a, n \div 15 + 1, Len(a)), 2^(n % 15))

\* bit i (0 = least significant) of a
BBit(a, i) ==
    IF i \div 15 >= Len(a) THEN 0
    ELSE (a[i \div 15 + 1] \div 2^(i % 15)) % 2

\* whether any of the n least significant bits of a is set
BLowBits(a, n) ==
    \E i \in 1..Len(a) :
        \/ i <= n \div 15 /\ a[i] # 0
        \/ i = n \div 15 + 1 /\ a[i] % 2^(n % 15) # 0

RECURSIVE IntBitLen(_)
IntBitLen(n) == IF n = 0 THEN 0 ELSE 1 + IntBitLen(n \div 2)

BBitLen(a) ==
    IF a = <<>> THEN 0 ELSE 15 * (Len(a) - 1) + IntBitLen(a[Len(a)])

BLimb(a, i) == IF i <= Len(a) THEN a[i] ELSE 0

BMin(a, b) == IF a < b THEN a ELSE b

\* the quotient digit of r by d from its estimate, which is at most 2 too big
BDigitFix(r, d, g) ==
    IF BCmp(BMulSmall(d, g), r) <= 0 THEN g
    ELSE IF BCmp(BMulSmall(d, g - 1), r) <= 0 THEN g - 1
    ELSE g - 2

\* floor(r / d) for r < d * Base and d with its top limb at least Base / 2:
\* estimated from the two top limbs of r and the top limb of d
BDigit(r, d) ==
    BDigitFix(r, d,
              BMin(Base - 1,
                   (BLimb(r, Len(d) + 1) * Base + BLimb(r, Len(d)))
                       \div d[Len(d)]))

\* long division by limbs, from limb i of n down, with the quotient limbs q
\* found so far and the running remainder r: <<quotient, remainder>>
RECURSIVE BDivModAt(_, _, _, _, _)
RECURSIVE BDivModDigit(_, _, _, _, _)
RECURSIVE BDivModSub(_, _, _, _, _, _)
BDivModSub(n, d, i, q, r, g) ==
    IF g = 0 THEN BDivModAt(n, d, i - 1, <<0>> \o q, r)
    ELSE BDivModAt(n, d, i - 1, <<g>> \o q, BSub(r, BMulSmall(d, g)))

BDivModDigit(n, d, i, q, r) == BDivModSub(n, d, i, q, r, BDigit(r, d))

BDivModAt(n, d, i, q, r) ==
    IF i = 0 THEN <<BNorm(q), r>>
    ELSE BDivModDigit(n, d, i, q, BNorm(<<n[i]>> \o r))

\* the shift that brings the top limb of d to at least Base / 2
BNormShift(d) == 15 * Len(d) - BBitLen(d)

\* the top Len(d) - 1 limbs of n are below d: the first quotient limb that
\* can be other than zero is limb Len(n) - Len(d) + 1
BDivModStart(n, d) ==
    IF Len(n) < Len(d) THEN <<<<>>, n>>
    ELSE BDivModAt(n, d, Len(n) - Len(d) + 1, <<>>,
                   SubSeq(n, Len(n) - Len(d) + 2, Len(n)))

BDivModShifted(n, d, s) == BDivModStart(BShl(n, s), BShl(d, s))

\* <<floor(n / d), (n mod d) * 2^BNormShift(d)>> for d # 0
BDivMod(n, d) == BDivModShifted(n, d, BNormShift(d))

(***************************************************************************)
(* Python floats (IEEE-754 binary64).  A float is [neg, man, exp] with     *)
(* value (-1)^neg * man * 2^exp, where man is a big natural of exactly     *)
(* MantBits bits, or zero ([neg |-> FALSE, man |-> <<>>, exp |-> 0]).      *)
(* Every operation computes the exact result and rounds it once to the     *)
(* nearest float, ties to even, as the hardware does.  The values of this  *)
(* program stay far from the overflow and subnormal ranges, and no         *)
(* operation of it can produce a negative zero that is observed.           *)
(***************************************************************************)
MantBits == 53

FZero == [neg |-> FALSE, man |-> <<>>, exp |-> 0]

\* rounding carried into a new bit: m is 2^MantBits
FRoundCarry(neg, e, m) ==
    IF BBitLen(m) > MantBits
    THEN [neg |-> neg, man |-> BShr(m, 1), exp |-> e + 1]
    ELSE [neg |-> neg, man |-> m, exp |-> e]

FRoundUp(neg, e, keep, up) ==
    IF up THEN FRoundCarry(neg, e, BAdd(keep, <<1>>))
    ELSE [neg |-> neg, man |-> keep, exp |-> e]

\* drop is the number of low bits of n that do not fit the mantissa: round up
\* when the first dropped bit is set and either a lower bit (or the sticky
\* bit) is set or the kept mantissa is odd
FRoundAt(neg, n, sticky, e, drop) ==
    IF drop <= 0
    THEN [neg |-> neg, man |-> BShl(n, 0 - drop), exp |-> e + drop]
    ELSE FRoundUp(neg, e + drop, BShr(n, drop),
                  /\ BBit(n, drop - 1) = 1
                  /\ (sticky \/ BLowBits(n, drop - 1) \/ BBit(n, drop) = 1))

\* the float nearest to (-1)^neg * (n + f) * 2^e, where 0 < f < 1 if sticky
\* and f = 0 otherwise; sticky is only used with n of more than MantBits bits
FRound(neg, n, sticky, e) ==
    IF n = <<>> THEN FZero
    ELSE FRoundAt(neg, n, sticky, e, BBitLen(n) - MantBits)

\* int -> float (exact for the integers of this program)
FFromInt(i) ==
    IF i < 0 THEN FRound(TRUE, BFromInt(0 - i), FALSE, 0)
    ELSE FRound(FALSE, BFromInt(i), FALSE, 0)

FNeg(a) == IF a.man = <<>> THEN a ELSE [a EXCEPT !.neg = ~a.neg]

FMul(a, b) ==
    IF a.man = <<>> \/ b.man = <<>> THEN FZero
    ELSE FRound(a.neg # b.neg, BMul(a.man, b.man), FALSE, a.exp + b.exp)

\* x * 2^e with sign xneg plus y * 2^e with sign yneg
FAddMag(xneg, x, yneg, y, e) ==
    IF xneg = yneg THEN FRound(xneg, BAdd(x, y), FALSE, e)
    ELSE IF BCmp(x, y) >= 0 THEN FRound(xneg, BSub(x, y), FALSE, e)
    ELSE FRound(yneg, BSub(y, x), FALSE, e)

FAddAt(a, b, e) ==
    FAddMag(a.neg, BShl(a.man, a.exp - e), b.neg, BShl(b.man, b.exp - e), e)

FAdd(a, b) ==
    IF a.man = <<>> THEN b
    ELSE IF b.man = <<>> THEN a
    ELSE FAddAt(a, b, IF a.exp < b.exp THEN a.exp ELSE b.exp)

FSub(a, b) == FAdd(a, FNeg(b))

FNonNeg(d) == d.man = <<>> \/ ~d.neg

\* a >= b
FGeq(a, b) == FNonNeg(FSub(a, b))

FDivRound(neg, qr, e) == FRound(neg, qr[1], qr[2] # <<>>, e)

\* a / b for b # 0: the quotient of the mantissas to MantBits + 2 or + 3 bits,
\* the remainder as the sticky bit
FDiv(a, b) ==
    IF a.man = <<>> THEN FZero
    ELSE FDivRound(a.neg # b.neg, BDivMod(BShl(a.man, MantBits + 2), b.man),
                   a.exp - b.exp - (MantBits + 2))

\* math.floor and math.ceil: float -> int
FFloor(a) ==
    IF a.man = <<>> THEN 0
    ELSE IF a.exp >= 0
    THEN (IF a.neg THEN 0 - BToInt(BShl(a.man, a.exp))
          ELSE BToInt(BShl(a.man, a.exp)))
    ELSE IF a.neg
    THEN 0 - BToInt(BShr(a.man, 0 - a.exp))
           - (IF BLowBits(a.man, 0 - a.exp) THEN 1 ELSE 0)
    ELSE BToInt(BShr(a.man, 0 - a.exp))

FCeil(a) == 0 - FFloor(FNeg(a))

(***************************************************************************)
(* The solvers.  c_att and c_total are Python ints, p_req is a float.      *)
(***************************************************************************)
F100 == FFromInt(100)

F1 == FFromInt(1)

\* what a call leaves behind when it raises instead of returning
ZeroDivisionError == [raised |-> "ZeroDivisionError"]

\* lines 63-65, with x_min computed
required_projected(c_att, c_total, current_percent, x_min) ==
    IF c_total + x_min = 0 THEN ZeroDivisionError
    ELSE [raised |-> "", x_min |-> x_min,
          current_percent |-> current_percent,
          projected_percent |->
              FMul(FDiv(FFromInt(c_att + x_min), FFromInt(c_total + x_min)),
                   F100)]

\* lines 61-62, with numerator and denominator computed
required_ceil(c_att, c_total, current_percent, numerator, denominator) ==
    IF denominator.man = <<>> THEN ZeroDivisionError
    ELSE required_projected(c_att, c_total, current_percent,
                            FCeil(FDiv(numerator, denominator)))

\* required_solve with the numerator's subtraction turned around
required_solve_negated(c_att, c_total, current_percent, R) ==
    required_ceil(c_att, c_total, current_percent,
                  FSub(FFromInt(c_att), FMul(R, FFromInt(c_total))),
                  FSub(F1, R))

\* lines 59-60, with R computed
required_solve(c_att, c_total, current_percent, R) ==
    required_ceil(c_att, c_total, current_percent,
                  FSub(FMul(R, FFromInt(c_total)), FFromInt(c_att)),
                  FSub(F1, R))

\* required_branch without the test of line 55
required_branch_without_sentinel(c_att, c_total, p_req, current_percent) ==
    IF FGeq(current_percent, p_req)
    THEN [raised |-> "", x_min |-> 0, current_percent |-> current_percent,
          projected_percent |-> current_percent]
    ELSE required_solve(c_att, c_total, current_percent, FDiv(p_req, F100))

\* required_branch with the tests of lines 53 and 55 in the other order
required_branch_sentinel_first(c_att, c_total, p_req, current_percent) ==
    IF p_req = F100
    THEN [raised |-> "", x_min |-> -1, current_percent |-> current_percent,
          projected_percent |-> FZero]
    ELSE IF FGeq(current_percent, p_req)
    THEN [raised |-> "", x_min |-> 0, current_percent |-> current_percent,
          projected_percent |-> current_percent]
    ELSE required_solve(c_att, c_total, current_percent, FDiv(p_req, F100))

\* lines 53-58, with current_percent computed
required_branch(c_att, c_total, p_req, current_percent) ==
    IF FGeq(current_percent, p_req)
    THEN [raised |-> "", x_min |-> 0, current_percent |-> current_percent,
          projected_percent |-> current_percent]
    ELSE IF p_req = F100
    THEN [raised |-> "", x_min |-> -1, current_percent |-> current_percent,
          projected_percent |-> FZero]
    ELSE required_solve(c_att, c_total, current_percent, FDiv(p_req, F100))

\* calculate_required_classes: (x_min, current_percent, projected_percent)
calculate_required_classes(c_att, c_total, p_req) ==
    IF c_total = 0 THEN ZeroDivisionError
    ELSE required_branch(c_att, c_total, p_req,
             FMul(FDiv(FFromInt(c_att), FFromInt(c_total)), F100))

\* the loop body's m_int for window size x (lines 71-72)
m_int_at(c_att, c_total, R, x) ==
    FFloor(FSub(FFromInt(x),
                FSub(FMul(R, FFromInt(c_total + x)), FFromInt(c_att))))

\* the least element of a non-empty set of ints
Least(S) == CHOOSE x \in S : \A y \in S : x <= y

\* what the for loop returns (lines 73-75), given the window sizes in range
\* whose m_int is >= 0: the loop returns at the first of them
max_missable_return(c_att, c_total, R, found) ==
    IF found = {} THEN <<0, 0>>
    ELSE <<m_int_at(c_att, c_total, R, Least(found)), Least(found)>>

\* max_missable_scan with range(0, max_future_classes + 1)
max_missable_scan_from_zero(c_att, c_total, R, max_future_classes) ==
    max_missable_return(c_att, c_total, R,
        {x \in 0..max_future_classes : m_int_at(c_att, c_total, R, x) >= 0})

\* the for loop of calculate_max_missable_classes (lines 70-75)
max_missable_scan(c_att, c_total, R, max_future_classes) ==
    max_missable_return(c_att, c_total, R,
        {x \in 1..max_future_classes : m_int_at(c_att, c_total, R, x) >= 0})

\* calculate_max_missable_classes: (missable_classes, future_window)
calculate_max_missable_classes(c_att, c_total, p_req, max_future_classes) ==
    max_missable_scan(c_att, c_total, FDiv(p_req, F100), max_future_classes)

\* Python's max of two ints
PyMax(a, b) == IF b > a THEN b ELSE a

\* missable_entry without the max(0, ...) of line 171
missable_entry_unclipped(c_att, c_total, p_req, x) ==
    FFloor(FSub(FFromInt(x),
                FSub(FMul(FDiv(p_req, F100), FFromInt(c_total + x)),
                     FFromInt(c_att))))

\* missable_entry with the window size left out of m's first term
missable_entry_without_window(c_att, c_total, p_req, x) ==
    PyMax(0, FFloor(FSub(FFromInt(c_att),
                         FMul(FDiv(p_req, F100), FFromInt(c_total + x)))))

\* one entry of missable_data (lines 169-171)
missable_entry(c_att, c_total, p_req, x) ==
    PyMax(0, FFloor(FSub(FFromInt(x),
                         FSub(FMul(FDiv(p_req, F100), FFromInt(c_total + x)),
                              FFromInt(c_att)))))

\* the chart loop: missable_data over future_classes_range
missable_series(c_att, c_total, p_req, future_classes_range) ==
    [i \in 1..Len(future_classes_range) |->
        missable_entry(c_att, c_total, p_req, future_classes_range[i])]

(***************************************************************************)
(* The page.  The three number inputs keep their values between runs of    *)
(* the script; every interaction reruns the script from the top, and the   *)
(* results are rendered only in the run started by the button.             *)
(*                                                                         *)
(* required_percentage is held as its number of widget steps of 0.5, so    *)
(* the float the widget returns is required_percentage * 2^-1 exactly.     *)
(***************************************************************************)
VARIABLES classes_attended, total_classes, required_percentage,
          shown, x_min, current_percent, projected_percent, action_plan,
          missable_classes, future_window, planning_ahead, missable_data

inputs == <<classes_attended, total_classes, required_percentage>>

outputs == <<shown, x_min, current_percent, projected_percent, action_plan,
             missable_classes, future_window, planning_ahead, missable_data>>

vars == <<inputs, outputs>>

\* widget parameters (lines 84-88)
DefaultAttended == 10
DefaultTotal == 15
DefaultPercentSteps == 150
MaxPercentSteps == 200
MinTotal == 1

\* default of max_future_classes (line 68) and the chart's range (line 165)
max_future_classes_default == 50
ChartRange == 30

\* the values the model types into the inputs: the first weeks of a course,
\* one record late in the term, and the widgets' defaults; the percentages
\* are every PercentGrid-th step of the widget
MaxAttended == 2
MaxTotal == 3
LateAttended == 7
LateTotal == 24
PercentGrid == 8

AttendedValues == 0..MaxAttended \cup {LateAttended, DefaultAttended}

TotalValues == MinTotal..MaxTotal \cup {LateTotal, DefaultTotal}

PercentValues ==
    {h \in 0..MaxPercentSteps : h % PercentGrid = 0} \cup {DefaultPercentSteps}

\* the float of a number of half-percent steps
PercentFloat(h) == FRound(FALSE, BFromInt(h), FALSE, -1)

None == "None"

NoOutputs ==
    /\ x_min' = None
    /\ current_percent' = None
    /\ projected_percent' = None
    /\ action_plan' = None
    /\ missable_classes' = None
    /\ future_window' = None
    /\ planning_ahead' = None
    /\ missable_data' = None

Init ==
    /\ classes_attended = DefaultAttended
    /\ total_classes = DefaultTotal
    /\ required_percentage = DefaultPercentSteps
    /\ shown = "form"
    /\ x_min = None
    /\ current_percent = None
    /\ projected_percent = None
    /\ action_plan = None
    /\ missable_classes = None
    /\ future_window = None
    /\ planning_ahead = None
    /\ missable_data = None

\* editing an input reruns the script with the button not pressed
SetClassesAttended ==
    \E v \in AttendedValues :
        /\ v # classes_attended
        /\ classes_attended' = v
        /\ shown' = "form"
        /\ NoOutputs
        /\ UNCHANGED <<total_classes, required_percentage>>

SetTotalClasses ==
    \E v \in TotalValues :
        /\ v # total_classes
        /\ total_classes' = v
        /\ shown' = "form"
        /\ NoOutputs
        /\ UNCHANGED <<classes_attended, required_percentage>>

SetRequiredPercentage ==
    \E h \in PercentValues :
        /\ h # required_percentage
        /\ required_percentage' = h
        /\ shown' = "form"
        /\ NoOutputs
        /\ UNCHANGED <<classes_attended, total_classes>>

\* the button with inputs the page rejects (lines 93-96)
CalculateRejected ==
    /\ classes_attended > total_classes \/ total_classes = 0
    /\ shown' = "error"
    /\ NoOutputs
    /\ UNCHANGED inputs

\* what the run started by the button renders (lines 98-176)
Render(req, mm, data) ==
    IF req.raised # ""
    THEN /\ shown' = req.raised
         /\ NoOutputs
    ELSE /\ shown' = "results"
         /\ x_min' = req.x_min
         /\ current_percent' = req.current_percent
         /\ projected_percent' = req.projected_percent
         /\ action_plan' = (IF req.x_min = 0 THEN "success"
                            ELSE IF req.x_min = -1 THEN "impossible"
                            ELSE "warning")
         /\ missable_classes' = mm[1]
         /\ future_window' = mm[2]
         /\ planning_ahead' = (IF mm[1] > 0 THEN "planning" ELSE "heads-up")
         /\ missable_data' = data

\* the button with accepted inputs (lines 97-176)
Calculate ==
    /\ ~(classes_attended > total_classes \/ total_classes = 0)
    /\ Render(calculate_required_classes(classes_attended, total_classes,
                  PercentFloat(required_percentage)),
              calculate_max_missable_classes(classes_attended, total_classes,
                  PercentFloat(required_percentage),
                  max_future_classes_default),
              missable_series(classes_attended, total_classes,
                  PercentFloat(required_percentage),
                  [i \in 1..ChartRange |-> i]))
    /\ UNCHANGED inputs

Next ==
    \/ SetClassesAttended
    \/ SetTotalClasses
    \/ SetRequiredPercentage
    \/ CalculateRejected
    \/ Calculate

Spec == Init /\ [][Next]_vars

(***************************************************************************)
(* The properties.  Ratios are compared exactly, in integers: with         *)
(* required_percentage counted in half percents, att / tot >= p / 100 is   *)
(* att * MaxPercentSteps >= required_percentage * tot for tot > 0.         *)
(***************************************************************************)
MeetsTarget(att, tot) == att * MaxPercentSteps >= required_percentage * tot

BelowTarget == ~MeetsTarget(classes_attended, total_classes)

\* R as both solvers and the chart loop compute it (lines 58, 69, 169)
RatioOf(h) == FDiv(PercentFloat(h), F100)

\* no window size in 1..max_future_classes has m_int >= 0
NoSlack(R) ==
    \A x \in 1..max_future_classes_default :
        m_int_at(classes_attended, total_classes, R, x) < 0

\* every window size below w has m below 0
NoSlackBelow(R, w) ==
    \A x \in 1..(w - 1) :
        m_int_at(classes_attended, total_classes, R, x) < 0

\* calculate_required_classes for the percentage h returns at most x
RequiredAtMost(h, x) ==
    \E r \in {calculate_required_classes(classes_attended, total_classes,
                                         PercentFloat(h))} :
        r.raised = "" /\ r.x_min <= x

\* the series entry of window size x is the clipped m_int of x
SeriesEntryAt(R, x) ==
    /\ missable_data[x] =
           PyMax(0, m_int_at(classes_attended, total_classes, R, x))
    /\ missable_data[x] >= 0

\* C1: below a target under 100, the x returned by
\* calculate_required_classes reaches the target, (attended + x) /
\* (total + x) >= p / 100, and x - 1 does not: x is the smallest such number
C1_RequiredIsSmallest ==
    (shown = "results" /\ required_percentage < MaxPercentSteps /\ BelowTarget)
    => /\ MeetsTarget(classes_attended + x_min, total_classes + x_min)
       /\ ~MeetsTarget(classes_attended + x_min - 1,
                       total_classes + x_min - 1)

\* C2, as stated: for targets p1 <= p2 in [0, 100], p2 = 100 included, the
\* x returned for p1 is not greater than the x returned for p2
C2_MonotoneUpTo100 ==
    shown = "results"
    => \A h1 \in PercentValues :
           h1 <= required_percentage => RequiredAtMost(h1, x_min)

\* C2, amended: for targets p1 <= p2 < 100 the x returned for p1 is not
\* greater than the x returned for p2
C2_MonotoneBelow100 ==
    (shown = "results" /\ required_percentage < MaxPercentSteps)
    => \A h1 \in PercentValues :
           h1 <= required_percentage => RequiredAtMost(h1, x_min)

\* C2's case: a target under 100 whose x is greater than a lower target's
C2_Witness ==
    /\ shown = "results"
    /\ required_percentage < MaxPercentSteps
    /\ x_min > 1
    /\ \E h1 \in PercentValues :
           h1 < required_percentage /\ RequiredAtMost(h1, x_min - 1)

\* C3: a returned pair (missable, window) with window >= 1 (a) meets the
\* target when window - missable of the next window classes are attended,
\* (b) misses it with one more class missed, and (c) has the smallest
\* window: m is below 0 for every smaller window size
C3_MaxMissableIsExact ==
    (shown = "results" /\ future_window >= 1)
    => /\ MeetsTarget(classes_attended + future_window - missable_classes,
                      total_classes + future_window)
       /\ ~MeetsTarget(classes_attended + future_window - missable_classes - 1,
                       total_classes + future_window)
       /\ NoSlackBelow(RatioOf(required_percentage), future_window)

\* C4: the missable count returned lies within the returned window,
\* 0 <= missable <= window
C4_MissableWithinWindow ==
    shown = "results"
    => 0 <= missable_classes /\ missable_classes <= future_window

\* C5: with a target of 100 and attended < total the call returns the
\* sentinel -1 with a projected percentage of 0, and raises nothing
C5_UnreachableIsReturned ==
    (/\ required_percentage = MaxPercentSteps
     /\ classes_attended < total_classes
     /\ shown # "form")
    => /\ shown = "results"
       /\ x_min = -1
       /\ projected_percent = FZero

\* C5's case: the button was pressed with a target of 100 and a missed class
C5_Witness ==
    /\ required_percentage = MaxPercentSteps
    /\ classes_attended < total_classes
    /\ shown = "results"
    /\ action_plan = "impossible"

\* C6: with attended <= total and the current percentage at or above the
\* target the call returns 0 and a projected percentage equal to the current
\* one, also when the target is 100
C6_MetTargetReturnsZero ==
    (/\ classes_attended <= total_classes
     /\ ~BelowTarget
     /\ shown # "form")
    => /\ shown = "results"
       /\ x_min = 0
       /\ projected_percent = current_percent

\* C6's case: full attendance against a target of 100
C6_Witness ==
    /\ classes_attended = total_classes
    /\ required_percentage = MaxPercentSteps
    /\ shown = "results"
    /\ x_min = 0
    /\ action_plan = "success"

\* C7: (0, 0) is returned exactly when no window size in
\* 1..max_future_classes has m_int >= 0; a found window is in
\* 1..max_future_classes, so a window of 0 means no slack was found
C7_NoSlackIsZeroZero ==
    shown = "results"
    => /\ future_window \in 0..max_future_classes_default
       /\ (future_window = 0) <=> NoSlack(RatioOf(required_percentage))
       /\ (missable_classes = 0 /\ future_window = 0)
              <=> NoSlack(RatioOf(required_percentage))

\* C7's case: a target under 100 with no slack within the search ceiling
C7_Witness ==
    /\ shown = "results"
    /\ required_percentage < MaxPercentSteps
    /\ missable_classes = 0
    /\ future_window = 0
    /\ NoSlack(RatioOf(required_percentage))

\* C8: the series has one entry per window size 1..30, in that order, each
\* the m_int of its window size clipped at 0, hence >= 0
C8_SeriesIsClippedSlack ==
    shown = "results"
    => /\ DOMAIN missable_data = 1..ChartRange
       /\ \A x \in 1..ChartRange :
              SeriesEntryAt(RatioOf(required_percentage), x)

\* C8's case: a series with a clipped entry and a positive one
C8_Witness ==
    /\ shown = "results"
    /\ m_int_at(classes_attended, total_classes,
                RatioOf(required_percentage), 1) < 0
    /\ missable_data[1] = 0
    /\ missable_data[ChartRange] > 0

\* C9: below the target, calculate_max_missable_classes returns (0, n) for
\* the n of calculate_required_classes when 1 <= n <= max_future_classes,
\* and (0, 0) when n is the sentinel or above max_future_classes
C9_SolversAgree ==
    (shown = "results" /\ BelowTarget)
    => /\ missable_classes = 0
       /\ x_min \in 1..max_future_classes_default => future_window = x_min
       /\ (x_min = -1 \/ x_min > max_future_classes_default)
              => future_window = 0

\* C10: the series does not decrease as the window size grows
C10_SeriesNonDecreasing ==
    shown = "results"
    => \A x1, x2 \in 1..ChartRange :
           x1 < x2 => missable_data[x1] <= missable_data[x2]

\* C10's case: a series that grows over the range
C10_Witness ==
    /\ shown = "results"
    /\ missable_data[1] < missable_data[ChartRange]

====
